---- MODULE Spec2Model ----
(***************************************************************************)
(* marker2nii: read a table of markers (one value per region of interest), *)
(* load a labelled volume (atlas), broadcast every marker column into the  *)
(* voxels of its region and write one volume per column.                   *)
(* Modelled from src/marker2nii/marker2nii.py.                             *)
(***************************************************************************)
EXTENDS Integers, Sequences, FiniteSets, TLC

(***************************************************************************)
(* Bounds of the model.                                                    *)
(***************************************************************************)
\* number of voxels of the atlas (the 3-D array, flattened)
NVox == 3
\* largest label a voxel of the atlas can carry (labels are 0..MaxLabel)
MaxLabel == 2
\* largest number of rows (values per marker column) of the marker file
MaxLen == 2
\* largest number of marker columns of the marker file
MaxCols == 2
\* largest number of values (rows times columns) of the marker file
MaxCells == 4
\* binary exponent of the large float64 values of the model (m * 2^BigExp)
BigExp == 69

(***************************************************************************)
(* float64 values.  A value is NaN or m * 2^e with a small integer m; e is *)
(* 0 (small values, where +, - are exact) or BigExp (large values).        *)
(* float64 keeps 53 significant bits: around m * 2^BigExp, m # 0, two      *)
(* neighbouring values are at least 2^(BigExp-53) apart.                   *)
(***************************************************************************)
NaN == [nan |-> TRUE, m |-> 0, e |-> 0]

F(m) == [nan |-> FALSE, m |-> m, e |-> 0]

Big(m) == [nan |-> FALSE, m |-> m, e |-> BigExp]

\* the marker values a file of the model can hold
FloatVals == {NaN, F(10), Big(1)}

\* np.isnan
isnan(x) == x.nan

\* a < b on non-NaN values
FLess(a, b) ==
    IF a.e = b.e THEN a.m < b.m
    ELSE IF a.e > b.e THEN a.m < 0
    ELSE b.m > 0

\* x - d as float64 computes it, for an integer 0 <= d < 2^(BigExp-54):
\* exact on small values; on a large value the exact difference lies less
\* than half a spacing from x, and rounding to nearest gives x back.
FSub(x, d) ==
    IF x.nan THEN NaN
    ELSE IF x.e = 0 THEN F(x.m - d)
    ELSE x

\* the offset of the masked value below the marker minimum
SentinelOffset == 20000

(***************************************************************************)
(* Strings are sequences of tokens, so that concatenation is \o.           *)
(***************************************************************************)
Header == <<"A", "B", "C", "D">>

ColName(j) == <<Header[j]>>

Exts == {".txt", ".csv", ".tsv", ".dat"}

\* os.path.split(p)[1]: the last component, extension included
os_path_split_tail(p) == <<p.base, p.ext>>

\* os.path.splitext(p)[1]
os_path_splitext_ext(p) == p.ext

\* os.path.splitext(tail)[0]
os_path_splitext_root(tail) == SubSeq(tail, 1, Len(tail) - 1)

(***************************************************************************)
(* Tables (pd.DataFrame): column names in order, and a column of values    *)
(* per name.  All columns have the same number of rows.                    *)
(***************************************************************************)
EmptyTable == [columns |-> <<>>, data |-> <<>>]

\* the column vectors of length n
Vectors(n) == [1..n -> FloatVals]

\* content of a delimited file: a header row, then k columns of n values
DelimitedContents ==
    UNION {UNION {{[columns |-> [j \in 1..k |-> ColName(j)], data |-> d] :
                      d \in [1..k -> Vectors(n)]} :
                  k \in {c \in 0..MaxCols : n * c <= MaxCells}} :
              n \in 0..MaxLen}

\* content of a plain-text file: one column of n values, no header
PlainContents ==
    UNION {{[columns |-> <<>>, data |-> <<v>>] : v \in Vectors(n)} :
              n \in 0..MaxLen}

\* markers[name]: the column of that name
Column(table, name) ==
    table.data[CHOOSE j \in DOMAIN table.columns : table.columns[j] = name]

(***************************************************************************)
(* Images (niimg): the voxel array and the display range of the header.    *)
(***************************************************************************)
Voxels == 1..NVox

NoImg == [dataobj |-> <<>>, cal_min |-> F(0), cal_max |-> F(0)]

Atlases ==
    {[dataobj |-> a, cal_min |-> F(0), cal_max |-> F(0)] :
        a \in [Voxels -> 0..MaxLabel]}

(***************************************************************************)
(* read_markers                                                            *)
(***************************************************************************)
\* the extensions the assertion of read_markers lets through
AllowedExts == {".csv", ".tsv", ".csv"}

\* np.loadtxt(markers_path) / pd.read_csv(markers_path, index_col=0, sep=..)
\* on a well-formed file: the columns of values of the file
read_markers(markers_path, content) ==
    LET tail == os_path_split_tail(markers_path)
        ext == os_path_splitext_ext(markers_path)
    IN  IF ext \notin AllowedExts
        THEN [err |-> "AssertionError: marker file", table |-> EmptyTable]
        ELSE IF ext \in {".txt"}
        THEN [err |-> "none",
              table |-> [columns |-> <<tail>>, data |-> <<content.data[1]>>]]
        ELSE [err |-> "none",
              table |-> [columns |-> content.columns, data |-> content.data]]

(***************************************************************************)
(* load_atlas                                                              *)
(***************************************************************************)
load_atlas(content) == content

(***************************************************************************)
(* map_to_atlas                                                            *)
(***************************************************************************)
\* np.unique(atlas_array): the distinct labels (iterated in ascending order)
np_unique(atlas_array) == {atlas_array[x] : x \in DOMAIN atlas_array}

MinLabel(rois) == CHOOSE r \in rois : \A s \in rois : r <= s

NotNaN(x) == ~isnan(x)

\* marker[~np.isnan(marker)]
marker_no_na(marker) == SelectSeq(marker, NotNaN)

\* np.min / np.max of a non-empty vector without NaN
RECURSIVE np_min(_)
np_min(s) ==
    IF Len(s) = 1 THEN s[1]
    ELSE LET r == np_min(Tail(s)) IN IF FLess(r, s[1]) THEN r ELSE s[1]

RECURSIVE np_max(_)
np_max(s) ==
    IF Len(s) = 1 THEN s[1]
    ELSE LET r == np_max(Tail(s)) IN IF FLess(s[1], r) THEN r ELSE s[1]

\* the assertion left out
roi_count_unchecked(rois, marker) == TRUE

\* the assertion len(rois) - 1 == len(marker)
roi_count_ok(rois, marker) == Cardinality(rois) - 1 = Len(marker)

\* marker[roi - 1] is in range (roi >= 1; Python indexes from 0)
index_ok(marker, roi) == roi - 1 < Len(marker)

\* marker[roi - 2]: the lookup one position too low (Python wraps -1 around)
marker_value_shifted(marker, roi) ==
    marker[IF roi = 1 THEN Len(marker) ELSE roi - 1]

\* marker[roi - 1]
\* (sequences are indexed from 1: Python index k is position k + 1)
marker_value(marker, roi) == marker[(roi - 1) + 1]

\* np.zeros(atlas_array.shape)
np_zeros(atlas_array) == [x \in DOMAIN atlas_array |-> F(0)]

\* the loop over the labels, in ascending order; stops at the first lookup
\* out of range
RECURSIVE roi_loop(_, _, _, _)
roi_loop(rois, marker, atlas_array, marker_img_array) ==
    IF rois = {} THEN [err |-> "none", arr |-> marker_img_array]
    ELSE LET roi == MinLabel(rois)
             rest == rois \ {roi}
         IN  IF roi = 0
             THEN roi_loop(rest, marker, atlas_array, marker_img_array)
             ELSE IF ~index_ok(marker, roi)
             THEN [err |-> "IndexError", arr |-> marker_img_array]
             ELSE roi_loop(rest, marker, atlas_array,
                     [x \in DOMAIN marker_img_array |->
                         IF atlas_array[x] = roi
                         THEN marker_value(marker, roi)
                         ELSE marker_img_array[x]])

\* marker_img_array[np.isnan(marker_img_array)] = sentinel
mask_nan(marker_img_array, sentinel) ==
    [x \in DOMAIN marker_img_array |->
        IF isnan(marker_img_array[x]) THEN sentinel ELSE marker_img_array[x]]

\* the background left as np.zeros made it
mask_background_skipped(marker_img_array, atlas_array, sentinel) ==
    marker_img_array

\* marker_img_array[atlas_array == 0] = sentinel
mask_background(marker_img_array, atlas_array, sentinel) ==
    [x \in DOMAIN marker_img_array |->
        IF atlas_array[x] = 0 THEN sentinel ELSE marker_img_array[x]]

\* the header of the new image shared with the atlas
atlas_after_shared(atlas, marker_min, marker_max) ==
    [atlas EXCEPT !.cal_min = marker_min, !.cal_max = marker_max]

\* the atlas after the header of the new image was written: new_img_like
\* gives the new image an array and a header of its own
atlas_after(atlas, marker_min, marker_max) == atlas

\* the outcome of a call that raises: no image, the arguments as they were
Raised(e, marker, atlas) ==
    [err |-> e, img |-> NoImg, atlas |-> atlas, marker |-> marker]

\* the outcome of map_to_atlas(marker, atlas): the error raised or the image
\* returned, and the two arguments as the call leaves them
map_to_atlas(marker, atlas) ==
    LET atlas_array == atlas.dataobj
        rois == np_unique(atlas_array)
        no_na == marker_no_na(marker)
    IN  IF ~roi_count_ok(rois, marker)
        THEN Raised("AssertionError: ROI count", marker, atlas)
        ELSE IF no_na = <<>>
        THEN Raised("ValueError", marker, atlas)
        ELSE LET marker_min == np_min(no_na)
                 marker_max == np_max(no_na)
                 sentinel == FSub(marker_min, SentinelOffset)
                 filled == roi_loop(rois, marker, atlas_array,
                                    np_zeros(atlas_array))
             IN  IF filled.err # "none"
                 THEN Raised(filled.err, marker, atlas)
                 ELSE [err |-> "none",
                       img |-> [dataobj |->
                                   mask_background(
                                       mask_nan(filled.arr, sentinel),
                                       atlas_array, sentinel),
                                cal_min |-> marker_min,
                                cal_max |-> marker_max],
                       atlas |-> atlas_after(atlas, marker_min, marker_max),
                       marker |-> marker]

(***************************************************************************)
(* Output files                                                            *)
(***************************************************************************)
\* one file name for every marker
output_file_fixed(marker) == <<"marker", ".nii.gz">>

\* f"{marker}.nii.gz"
output_file(marker) == marker \o <<".nii.gz">>

\* a file left in the output directory by an earlier run
StaleFile == [stale |-> TRUE, img |-> NoImg]

\* marker_img.to_filename(output_file)
to_filename(files, name, marker_img) ==
    (name :> [stale |-> FALSE, img |-> marker_img]) @@ files

StaleFiles == [f \in {output_file(ColName(j)) : j \in 1..MaxCols} |-> StaleFile]

NoFiles == [f \in {} |-> StaleFile]

(***************************************************************************)
(* The run of main()                                                       *)
(***************************************************************************)
VARIABLES
    args,                       \* parse_args(): the three paths
    marker_file_content,        \* the content of the marker file
    parcellation_file_content,  \* the content of the parcellation file
    isdir,                      \* which of the two directories exist
    files,                      \* the files of the output directory
    files0,                     \* the files of the output directory at start
    pc,                         \* the position of main()
    err,                        \* the error that ended the run, or "none"
    output_folder,              \* main's output_folder
    parcellation,               \* main's parcellation
    markers,                    \* main's markers
    i,                          \* the loop index of main (enumerate)
    marker_img,                 \* main's marker_img (the last image mapped)
    written,                    \* the marker names written, in order
    results                     \* outcomes of direct map_to_atlas calls

vars == <<args, marker_file_content, parcellation_file_content, isdir, files,
          files0, pc, err, output_folder, parcellation, markers, i,
          marker_img, written, results>>

inputs == <<args, marker_file_content, parcellation_file_content, files0>>

NoFolder == [parent |-> "", name |-> <<>>]

NoResult == Raised("not called", <<>>, NoImg)

ArgsSet ==
    {[marker_file |-> [base |-> "m", ext |-> x],
      parcellation_file |-> "atlas.nii",
      out_folder |-> "out"] : x \in Exts}

\* the inputs of a run: the arguments, the two input files and the state of
\* the output directory (out_folder missing; out_folder without the
\* subdirectory of the run; the subdirectory left by an earlier run)
InitInputs ==
    /\ args \in ArgsSet
    /\ marker_file_content \in
          IF args.marker_file.ext \in {".csv", ".tsv"}
          THEN DelimitedContents ELSE PlainContents
    /\ parcellation_file_content \in Atlases
    /\ isdir \in {[out_folder |-> FALSE, output_folder |-> FALSE],
                  [out_folder |-> TRUE, output_folder |-> FALSE],
                  [out_folder |-> TRUE, output_folder |-> TRUE]}
    /\ files = IF isdir.output_folder THEN StaleFiles ELSE NoFiles
    /\ files0 = files

Init ==
    /\ InitInputs
    /\ pc = "prepare_output"
    /\ err = "none"
    /\ output_folder = NoFolder
    /\ parcellation = NoImg
    /\ markers = EmptyTable
    /\ i = 0
    /\ marker_img = NoImg
    /\ written = <<>>
    /\ results = <<>>

\* output_folder = prepare_output(args.out_folder, args.marker_file)
prepare_output ==
    /\ pc = "prepare_output"
    /\ IF ~isdir.out_folder
       THEN /\ pc' = "failed"
            /\ err' = "FileNotFoundError"
            /\ UNCHANGED <<output_folder, isdir>>
       ELSE LET tail == os_path_split_tail(args.marker_file)
                file_name == os_path_splitext_root(tail)
            IN  /\ output_folder' =
                      [parent |-> args.out_folder, name |-> file_name]
                /\ isdir' = [isdir EXCEPT !.output_folder = TRUE]
                /\ pc' = "load_atlas"
                /\ err' = err
    /\ UNCHANGED <<inputs, files, parcellation, markers, i, marker_img,
                   written, results>>

\* parcellation = load_atlas(args.parcellation_file)
LoadAtlas ==
    /\ pc = "load_atlas"
    /\ parcellation' = load_atlas(parcellation_file_content)
    /\ pc' = "read_markers"
    /\ UNCHANGED <<inputs, isdir, files, err, output_folder, markers, i,
                   marker_img, written, results>>

\* markers = read_markers(args.marker_file)
ReadMarkers ==
    /\ pc = "read_markers"
    /\ LET r == read_markers(args.marker_file, marker_file_content)
       IN  IF r.err # "none"
           THEN /\ pc' = "failed"
                /\ err' = r.err
                /\ markers' = markers
           ELSE /\ pc' = "loop"
                /\ err' = err
                /\ markers' = r.table
    /\ UNCHANGED <<inputs, isdir, files, output_folder, parcellation, i,
                   marker_img, written, results>>

\* the table with the column of that name replaced
WithColumn(table, name, v) ==
    [table EXCEPT !.data =
        [j \in DOMAIN table.data |->
            IF table.columns[j] = name THEN v ELSE table.data[j]]]

\* one iteration of a loop that skips a column whose mapping fails
ProcessMarkerContinue ==
    /\ pc = "loop"
    /\ i < Len(markers.columns)
    /\ LET marker == markers.columns[i + 1]
           r == map_to_atlas(Column(markers, marker), parcellation)
       IN  /\ parcellation' = r.atlas
           /\ markers' = WithColumn(markers, marker, r.marker)
           /\ i' = i + 1
           /\ IF r.err # "none"
              THEN UNCHANGED <<files, marker_img, written, pc, err>>
              ELSE /\ marker_img' = r.img
                   /\ files' = to_filename(files, output_file(marker), r.img)
                   /\ written' = Append(written, marker)
                   /\ UNCHANGED <<pc, err>>
    /\ UNCHANGED <<inputs, isdir, output_folder, results>>

\* one iteration of the loop of main: map the column, write the image
ProcessMarker ==
    /\ pc = "loop"
    /\ i < Len(markers.columns)
    /\ LET marker == markers.columns[i + 1]
           r == map_to_atlas(Column(markers, marker), parcellation)
       IN  /\ parcellation' = r.atlas
           /\ markers' = WithColumn(markers, marker, r.marker)
           /\ IF r.err # "none"
              THEN /\ pc' = "failed"
                   /\ err' = r.err
                   /\ UNCHANGED <<files, i, marker_img, written>>
              ELSE /\ marker_img' = r.img
                   /\ files' = to_filename(files, output_file(marker), r.img)
                   /\ written' = Append(written, marker)
                   /\ i' = i + 1
                   /\ UNCHANGED <<pc, err>>
    /\ UNCHANGED <<inputs, isdir, output_folder, results>>

\* the loop is exhausted: main returns
Finish ==
    /\ pc = "loop"
    /\ i = Len(markers.columns)
    /\ pc' = "done"
    /\ UNCHANGED <<inputs, isdir, files, err, output_folder, parcellation,
                   markers, i, marker_img, written, results>>

Next == prepare_output \/ LoadAtlas \/ ReadMarkers \/ ProcessMarker \/ Finish

Spec == Init /\ [][Next]_vars

(***************************************************************************)
(* Direct calls of map_to_atlas on the columns of a loaded table, in any   *)
(* order and any number of times (up to MaxCalls calls).                   *)
(***************************************************************************)
MaxCalls == 2

InitCalls ==
    /\ InitInputs
    /\ args.marker_file.ext = ".csv"
    /\ isdir.output_folder
    /\ pc = "calls"
    /\ err = "none"
    /\ output_folder = NoFolder
    /\ parcellation = load_atlas(parcellation_file_content)
    /\ markers = read_markers(args.marker_file, marker_file_content).table
    /\ i = 0
    /\ marker_img = NoImg
    /\ written = <<>>
    /\ results = [c \in DOMAIN markers.columns |-> NoResult]

\* map_to_atlas(markers[marker], parcellation) for the c-th column
CallMap(c) ==
    /\ pc = "calls"
    /\ Len(written) < MaxCalls
    /\ LET marker == markers.columns[c]
           r == map_to_atlas(Column(markers, marker), parcellation)
       IN  /\ parcellation' = r.atlas
           /\ markers' = WithColumn(markers, marker, r.marker)
           /\ results' = [results EXCEPT ![c] = r]
           /\ written' = Append(written, marker)
    /\ UNCHANGED <<inputs, isdir, files, pc, err, output_folder, i,
                   marker_img>>

NextCalls == \E c \in DOMAIN markers.columns : CallMap(c)

SpecCalls == InitCalls /\ [][NextCalls]_vars

(***************************************************************************)
(* Vocabulary of the properties                                            *)
(***************************************************************************)
\* the errors map_to_atlas can end with
MapErrors == {"AssertionError: ROI count", "ValueError", "IndexError"}

\* main holds the image map_to_atlas returned for the i-th column
Returned == pc \in {"loop", "done", "failed"} /\ i >= 1

\* the marker vector of that call, and the labels of the atlas
LastV == Column(markers, markers.columns[i])

Labels == parcellation.dataobj

\* the call of map_to_atlas on column i + 1 raised
MapFailed == pc = "failed" /\ err \in MapErrors

FailedV == Column(markers, markers.columns[i + 1])

\* the non-NaN entries of v, their minimum and maximum
NonNaN(v) == {v[j] : j \in {k \in DOMAIN v : ~v[k].nan}}

TrueMin(v) == CHOOSE m \in NonNaN(v) : \A o \in NonNaN(v) : ~FLess(o, m)

TrueMax(v) == CHOOSE m \in NonNaN(v) : \A o \in NonNaN(v) : ~FLess(m, o)

\* the masked value of a call on v
Sentinel(v) == FSub(TrueMin(v), SentinelOffset)

\* the image a call on the j-th column of the marker file gives
MappedOf(j) ==
    map_to_atlas(marker_file_content.data[j], parcellation_file_content)

\* the file of the output directory for the j-th column of the marker file
FileOf(j) == marker_file_content.columns[j] \o <<".nii.gz">>

(***************************************************************************)
(* C1 - positional correspondence: in the image map_to_atlas returns, a    *)
(* voxel of label k >= 1 whose marker value v[k-1] is not NaN holds        *)
(* v[k-1].                                                                  *)
(***************************************************************************)
C1_Positional ==
    Returned =>
        \A x \in Voxels :
            LET k == Labels[x]
            IN  (k >= 1 /\ k \in DOMAIN LastV /\ ~isnan(LastV[k]))
                    => marker_img.dataobj[x] = LastV[k]

\* two regions with different non-NaN values were mapped
C1_Witness ==
    /\ Returned
    /\ \E x, y \in Voxels :
          /\ Labels[x] = 1 /\ Labels[y] = 2
          /\ ~isnan(LastV[1]) /\ ~isnan(LastV[2])
          /\ LastV[1] # LastV[2]
          /\ marker_img.dataobj[x] = LastV[1]

(***************************************************************************)
(* C2 - masking: in the image map_to_atlas returns, every voxel of label 0 *)
(* and every voxel whose marker value is NaN holds marker_min - 20000,     *)
(* marker_min being the minimum of the non-NaN entries of v.               *)
(***************************************************************************)
C2_Masking ==
    Returned =>
        \A x \in Voxels :
            LET k == Labels[x]
            IN  (k = 0 \/ (k >= 1 /\ k \in DOMAIN LastV /\ isnan(LastV[k])))
                    => marker_img.dataobj[x] = Sentinel(LastV)

\* an image with a background voxel and a voxel of a region without value
C2_Witness ==
    /\ Returned
    /\ \E x, y \in Voxels :
          /\ Labels[x] = 0
          /\ Labels[y] >= 1 /\ isnan(LastV[Labels[y]])
          /\ marker_img.dataobj[y] = Sentinel(LastV)

(***************************************************************************)
(* C3 - count mismatch rejection: with R distinct nonzero labels in the    *)
(* atlas, a call of map_to_atlas on a vector of length other than R raises *)
(* the ROI-count assertion, returns no image, and no file is written.      *)
(***************************************************************************)
NonzeroLabels == np_unique(Labels) \ {0}

C3_CountMismatch ==
    /\ Returned => Len(LastV) = Cardinality(NonzeroLabels)
    /\ (MapFailed /\ Len(FailedV) # Cardinality(NonzeroLabels))
          => /\ err = "AssertionError: ROI count"
             /\ (markers.columns[i + 1] \o <<".nii.gz">>) \notin
                    (DOMAIN files \ DOMAIN files0)

(***************************************************************************)
(* C4 - format dispatch: read_markers on a .txt file of one column of      *)
(* floats succeeds and returns one column, named by the base name of the   *)
(* file without the extension, holding the floats of the file in order.    *)
(***************************************************************************)
ReadAttempted ==
    pc \in {"loop", "done", "failed"} /\ err # "FileNotFoundError"

C4_PlainText ==
    (ReadAttempted /\ args.marker_file.ext = ".txt")
        => /\ err # "AssertionError: marker file"
           /\ markers.columns = <<<<args.marker_file.base>>>>
           /\ markers.data = <<marker_file_content.data[1]>>

(***************************************************************************)
(* C5 - display range: cal_min and cal_max of the image map_to_atlas       *)
(* returns are the minimum and the maximum of the non-NaN entries of v,    *)
(* and never the masked value.                                             *)
(***************************************************************************)
C5_DisplayRange ==
    Returned =>
        /\ marker_img.cal_min = TrueMin(LastV)
        /\ marker_img.cal_max = TrueMax(LastV)
        /\ marker_img.cal_min # Sentinel(LastV)
        /\ marker_img.cal_max # Sentinel(LastV)

(***************************************************************************)
(* C6 - sentinel exclusivity: in the image map_to_atlas returns for a      *)
(* vector of finite values, no voxel of a nonzero label with a non-NaN     *)
(* marker value holds the masked value marker_min - 20000.                 *)
(***************************************************************************)
C6_SentinelExclusive ==
    Returned =>
        \A x \in Voxels :
            LET k == Labels[x]
            IN  (k >= 1 /\ k \in DOMAIN LastV /\ ~isnan(LastV[k]))
                    => marker_img.dataobj[x] # Sentinel(LastV)

(***************************************************************************)
(* C7 - driver output: the columns are mapped and written one after        *)
(* another in the order of the table, and when the run completes the       *)
(* output directory holds, for every column of the marker file, one file   *)
(* <marker_name>.nii.gz with the image mapped from that column.            *)
(***************************************************************************)
NCols == Len(marker_file_content.columns)

C7_DriverOutput ==
    /\ pc \in {"loop", "done", "failed"} =>
          written = SubSeq(markers.columns, 1, i)
    /\ pc = "done" =>
          /\ i = NCols
          /\ Cardinality({FileOf(j) : j \in 1..NCols}) = NCols
          /\ \A j \in 1..NCols :
                /\ FileOf(j) \in DOMAIN files
                /\ MappedOf(j).err = "none"
                /\ files[FileOf(j)] = [stale |-> FALSE, img |-> MappedOf(j).img]
          /\ DOMAIN files = DOMAIN files0 \cup {FileOf(j) : j \in 1..NCols}

\* a completed run that wrote two different images over the files of an
\* earlier run
C7_Witness ==
    /\ pc = "done"
    /\ NCols = 2
    /\ files0 # NoFiles
    /\ files[FileOf(1)].img # files[FileOf(2)].img
    /\ ~files[FileOf(1)].stale /\ ~files[FileOf(2)].stale

(***************************************************************************)
(* C8 - abort on first error: when mapping a column fails the run stops;   *)
(* no file is written for that column or a later one, and the files of the *)
(* columns before it stay as they were written.                            *)
(***************************************************************************)
C8_AbortOnFirstError ==
    /\ \A j \in 1..NCols :
          (FileOf(j) \in DOMAIN files /\ ~files[FileOf(j)].stale)
              => \A k \in 1..j : MappedOf(k).err = "none"
    /\ MapFailed =>
          /\ i < NCols
          /\ MappedOf(i + 1).err = err
          /\ written = SubSeq(markers.columns, 1, i)
          /\ \A j \in 1..NCols :
                IF j <= i
                THEN /\ FileOf(j) \in DOMAIN files
                     /\ files[FileOf(j)] =
                            [stale |-> FALSE, img |-> MappedOf(j).img]
                ELSE /\ FileOf(j) \in DOMAIN files <=>
                            FileOf(j) \in DOMAIN files0
                     /\ FileOf(j) \in DOMAIN files =>
                            files[FileOf(j)] = files0[FileOf(j)]
          /\ ~ENABLED Next

\* the second column failed after the first was written
C8_Witness ==
    /\ MapFailed
    /\ i = 1
    /\ ~files[FileOf(1)].stale
    /\ files0 # NoFiles
    /\ files[FileOf(2)].stale

C10_Original ==
    /\ Returned => np_unique(Labels) = 0..Len(LastV)
    /\ (MapFailed /\ np_unique(Labels) # 0..Len(FailedV))
          => err \in {"AssertionError: ROI count", "IndexError"}

(***************************************************************************)
(* C10 - implicit contiguity guard, amended: map_to_atlas on a vector of   *)
(* length N returns an image only if the labels of the atlas are exactly   *)
(* 0..N; on any other set of non-negative labels it fails: at the count    *)
(* check, at the lookup v[label - 1], or, when v has no non-NaN entry, at  *)
(* the minimum of the non-NaN entries.                                     *)
(***************************************************************************)
C10_ContiguityGuard ==
    /\ Returned => np_unique(Labels) = 0..Len(LastV)
    /\ (MapFailed /\ np_unique(Labels) # 0..Len(FailedV))
          => \/ err \in {"AssertionError: ROI count", "IndexError"}
             \/ err = "ValueError" /\ NonNaN(FailedV) = {}

\* a gap in the labels passed the count check and failed at the lookup
C10_Witness ==
    /\ MapFailed
    /\ err = "IndexError"
    /\ 0 \in np_unique(Labels)
    /\ Cardinality(np_unique(Labels)) = Len(FailedV) + 1
    /\ np_unique(Labels) # 0..Len(FailedV)

====
